---- MODULE Spec2Model ----
(***************************************************************************)
(* Model of heat/engine/resources/volume.py: the lifecycle callbacks of    *)
(* Volume, CinderVolume and VolumeAttachment, the attach and detach tasks, *)
(* and the cooperative TaskRunner that drives them; and of                 *)
(* heat/engine/resources/stack.py: NestedStack.  One resource is driven by *)
(* the engine through create, update and delete; the provider (cinder,     *)
(* nova) and the template server answer every request nondeterministically.*)
(***************************************************************************)
EXTENDS Integers, Sequences, FiniteSets, TLC

\* ---------------------------------------------------------------- bounds
\* check_*_complete polls (or run_to_completion iterations) per operation
MaxPolls == 4
\* handle_delete calls per resource
MaxDeletes == 2
\* handle_update calls per nested stack
MaxUpdates == 2

\* ------------------------------------------------------------ vocabulary
None == "None"

VolumeClasses == {"Volume", "CinderVolume"}
AttachmentClasses == {"VolumeAttachment"}
StackClasses == {"NestedStack"}
Classes == VolumeClasses \cup AttachmentClasses \cup StackClasses

\* statuses the provider may report for a volume
Statuses == {"creating", "restoring-backup", "downloading", "available",
             "attaching", "in-use", "detaching", "deleting", "error"}
\* statuses the provider may report for a backup
BackupStatuses == {"creating", "available", "error"}

\* identifiers the provider may hand out
VolIds == {"v1", "v2"}
AttachIds == {"a1", "a2"}
BackupIds == {"b1"}

\* exceptions: cinder/nova NotFound, nova BadRequest, any other failure of a
\* request (Fail), and exception.Error(msg)
NoExc == [type |-> "none", msg |-> ""]
NotFound == [type |-> "NotFound", msg |-> ""]
BadRequest == [type |-> "BadRequest", msg |-> ""]
Fail == [type |-> "Fail", msg |-> ""]
Error(m) == [type |-> "Error", msg |-> m]

\* what a status fetch (volumes.get / vol.get / backup.get) can answer
FetchAnswers(S) == {[exc |-> NoExc, status |-> s] : s \in S}
                     \cup {[exc |-> NotFound, status |-> None],
                           [exc |-> Fail, status |-> None]}

NoObs == [exc |-> NoExc, status |-> None]

NoVol == [id |-> None, status |-> None]

\* no state argument: the callback takes none
NoState == <<"none", "none">>

ZeroCnt == [create |-> 0, restore |-> 0, get |-> 0, update |-> 0,
            delete |-> 0, bcreate |-> 0, bget |-> 0, attach |-> 0,
            detach |-> 0, redetach |-> 0, steps |-> 0, yieldA |-> 0,
            yieldB |-> 0, busy |-> 0, swallowed |-> 0, polls |-> 0]

VARIABLES
  cls,            \* class of the resource
  backup_id,      \* properties[_restore_property]
  volume_backups, \* whether cinderclient.v1.volume_backups was imported
  resource_id,    \* Resource.resource_id
  phase,          \* the engine's position in the resource's lifecycle
  vol,            \* the task's / handle's volume object (id, last status)
  backup,         \* the backup object's last status
  pc,             \* where the task's generator is suspended
  done,           \* TaskRunner._done
  attachment_id,  \* VolumeAttachTask.attachment_id
  op,             \* the callback that ran last
  ret,            \* what it returned
  exc,            \* the exception it raised, or NoExc
  obs,            \* the answer to the last status fetch of the volume
  provVol,        \* id of the volume this resource's create made on the provider
  saw404,         \* a NotFound answer was caught by the running delete task
  ndel,           \* handle_delete calls so far
  began,          \* the current operation: its handle_* callback, the
                  \* resource_id it began with and the state it was passed
  from,           \* where the generator stood when the last callback began
  hist,           \* create polls and detach steps so far: status seen, result
  ns,             \* NestedStack: properties, child stack, last call's doings
  dreq,           \* nova's answer to the detach request the last callback
                  \* issued, "none" when it issued none
  cnt             \* requests issued and task steps in the current operation

vars == <<cls, backup_id, volume_backups, resource_id, phase, vol, backup, pc,
          done, attachment_id, op, ret, exc, obs, provVol, saw404, ndel, began,
          from, hist, ns, dreq, cnt>>

\* the part of the state a callback's code reads and writes
Cur == [resource_id |-> resource_id, vol |-> vol, backup |-> backup,
        pc |-> pc, done |-> done, attachment_id |-> attachment_id,
        ret |-> ret, exc |-> exc, obs |-> obs, provVol |-> provVol,
        saw404 |-> saw404, began |-> began, from |-> from, dreq |-> dreq,
        cnt |-> cnt]

Apply(t) ==
  /\ resource_id' = t.resource_id
  /\ vol' = t.vol
  /\ backup' = t.backup
  /\ pc' = t.pc
  /\ done' = t.done
  /\ attachment_id' = t.attachment_id
  /\ ret' = t.ret
  /\ exc' = t.exc
  /\ obs' = t.obs
  /\ provVol' = t.provVol
  /\ saw404' = t.saw404
  /\ began' = t.began
  /\ from' = t.from
  /\ dreq' = t.dreq
  /\ cnt' = t.cnt

\* a request of kind k was issued to the provider
Req(t, k) == [t EXCEPT !.cnt[k] = @ + 1]
\* the provider answered a to a fetch of the volume
Seen(t, a) == [t EXCEPT !.obs = a]
\* the running code raises e
Raise(t, e) == [t EXCEPT !.exc = e, !.pc = "raised"]
\* the callback returns r, unless an exception is leaving it
Returns(t, r) == [t EXCEPT !.ret = IF t.exc # NoExc THEN "raise" ELSE r]
\* the generator suspends at `yield` position `at`; k counts the suspension
Suspend(t, at, k) == [t EXCEPT !.pc = at, !.cnt[k] = @ + 1]
\* Resource.resource_id_set
resource_id_set(t, v) == [t EXCEPT !.resource_id = v]

\* ------------------------------------------------------- Volume: create
\* mutant: CinderVolume without its own _volume_creating_status
_volume_creating_status_inherited(c) == {"creating", "restoring-backup"}

\* Volume._volume_creating_status / CinderVolume._volume_creating_status
_volume_creating_status(c) ==
  IF c = "CinderVolume"
  THEN {"creating", "restoring-backup", "downloading"}
  ELSE {"creating", "restoring-backup"}

\* handle_create, restore branch: restore, fetch the volume, rename it
Volume_restore(t) ==
  LET r == Req(t, "restore") IN
  {Raise(r, Fail)} \cup
  UNION { LET made == [r EXCEPT !.provVol = v]
              g == Req(made, "get") IN
          {Raise(g, NotFound), Raise(g, Fail)} \cup
          UNION { LET u == Req([g EXCEPT !.vol = [id |-> v, status |-> s]],
                               "update") IN
                  {Raise(u, Fail), u} : s \in Statuses }
        : v \in VolIds }

\* handle_create, plain branch: cinder.volumes.create
Volume_plain_create(t) ==
  LET r == Req(t, "create") IN
  {Raise(r, Fail)} \cup
  { [r EXCEPT !.provVol = v, !.vol = [id |-> v, status |-> s]]
    : v \in VolIds, s \in Statuses }

\* Volume.handle_create: every outcome of one call
Volume_handle_create(t, bid, vb) ==
  LET made == IF bid # None
              THEN IF ~vb THEN {Raise(t, Error("not supported"))}
                   ELSE Volume_restore(t)
              ELSE Volume_plain_create(t) IN
  { IF m.exc # NoExc THEN Returns(m, "vol")
    ELSE Returns(resource_id_set(m, m.vol.id), "vol") : m \in made }

\* mutant: a status that is neither available nor creating is waited on
Volume_check_create_complete_waits(t, c) ==
  LET g == Req(t, "get") IN
  { LET o == Seen(g, a) IN
    IF a.exc # NoExc THEN Returns(Raise(o, a.exc), "True")
    ELSE LET w == [o EXCEPT !.vol.status = a.status] IN
         IF a.status = "available" THEN Returns(w, "True")
         ELSE Returns(w, "False")
    : a \in FetchAnswers(Statuses) }

\* Volume.check_create_complete: every outcome of one poll
Volume_check_create_complete(t, c) ==
  LET g == Req(t, "get") IN
  { LET o == Seen(g, a) IN
    IF a.exc # NoExc THEN Returns(Raise(o, a.exc), "True")
    ELSE LET w == [o EXCEPT !.vol.status = a.status] IN
         IF a.status = "available" THEN Returns(w, "True")
         ELSE IF a.status \in _volume_creating_status(c)
              THEN Returns(w, "False")
              ELSE Returns(Raise(w, Error(a.status)), "True")
    : a \in FetchAnswers(Statuses) }

\* ------------------------------------------------------- Volume: delete
\* cinder.volumes.get(id): a new volume object, or the request's exception
VolumesGet(t, id) ==
  { LET g == Seen(Req(t, "get"), a) IN
    IF a.exc # NoExc THEN Raise(g, a.exc)
    ELSE [g EXCEPT !.vol = [id |-> id, status |-> a.status]]
    : a \in FetchAnswers(Statuses) }

\* vol.get(): refresh the volume object's status, or the request's exception
VolGet(t) ==
  { LET g == Seen(Req(t, "get"), a) IN
    IF a.exc # NoExc THEN Raise(g, a.exc)
    ELSE [g EXCEPT !.vol.status = a.status]
    : a \in FetchAnswers(Statuses) }

\* Backup_loop without the status check after the loop
Backup_loop_unchecked(t, bs) ==
  IF bs = "creating" THEN Suspend(t, "backup_yield", "yieldA")
  ELSE [t EXCEPT !.pc = "backup_returned"]

\* Volume._backup from a known backup status bs: the while loop's test, the
\* suspension inside it, and the final status check
Backup_loop(t, bs) ==
  IF bs = "creating" THEN Suspend(t, "backup_yield", "yieldA")
  ELSE IF bs # "available" THEN Raise(t, Error(bs))
  ELSE [t EXCEPT !.pc = "backup_returned"]

\* Volume._backup up to its first suspension: cinder.backups.create
Backup_start(t) ==
  LET r == Req(t, "bcreate") IN
  { IF a.exc # NoExc THEN Raise(r, a.exc)
    ELSE Backup_loop([r EXCEPT !.backup = a.status], a.status)
    : a \in FetchAnswers(BackupStatuses) }

\* Volume._backup resumed after `yield`: backup.get() and the loop again
Backup_resume(t) ==
  LET r == Req(t, "bget") IN
  { IF a.exc # NoExc THEN Raise(r, a.exc)
    ELSE Backup_loop([r EXCEPT !.backup = a.status], a.status)
    : a \in FetchAnswers(BackupStatuses) }

\* Delete_except that ends the task on NotFound but keeps resource_id
Delete_except_keeps_id(t) ==
  IF t.exc = NotFound
  THEN [t EXCEPT !.exc = NoExc, !.pc = "returned", !.saw404 = TRUE]
  ELSE t

\* Volume._delete, the except clause: NotFound raised anywhere inside the try
\* clears resource_id and ends the task; anything else leaves the task
Delete_except(t) ==
  IF t.exc = NotFound
  THEN [resource_id_set(t, None) EXCEPT !.exc = NoExc, !.pc = "returned",
                                        !.saw404 = TRUE]
  ELSE t

\* mutant: no in-use test before the delete request
Delete_issue_unchecked(t) ==
  LET d == Req(t, "delete") IN
  {Suspend(d, "delete_yield", "yieldB"),
   Delete_except(Raise(d, NotFound)),
   Delete_except(Raise(d, Fail))}

\* Volume._delete from the in-use test on: refuse, or delete and suspend
Delete_issue(t) ==
  IF t.vol.status = "in-use" THEN {Raise(t, Error("Volume in use"))}
  ELSE LET d == Req(t, "delete") IN
       {Suspend(d, "delete_yield", "yieldB"),
        Delete_except(Raise(d, NotFound)),
        Delete_except(Raise(d, Fail))}

\* mutant: one more suspension between the backup and the re-fetch
Delete_after_backup_yields(t) == {[t EXCEPT !.pc = "delete_yield"]}

\* Volume._delete after `yield self._backup()` has returned: vol.get() and on
Delete_after_backup(t) ==
  UNION { IF g.exc # NoExc THEN {Delete_except(g)} ELSE Delete_issue(g)
          : g \in VolGet(t) }

\* scheduler.wrappertask at `yield self._backup()`: a suspension of the
\* subtask is a suspension of the composite, an exception of the subtask is
\* thrown into the parent at the yield, and when the subtask ends the parent
\* goes on
wrappertask(subs) ==
  UNION { IF b.pc = "backup_yield" THEN {b}
          ELSE IF b.exc # NoExc THEN {Delete_except(b)}
          ELSE Delete_after_backup(b)
          : b \in subs }

\* mutant: no test of resource_id before the first fetch
Volume_delete_unguarded(t, bk) ==
  UNION { IF g.exc # NoExc THEN {Delete_except(g)}
          ELSE IF bk THEN wrappertask(Backup_start(g))
          ELSE Delete_issue(g)
          : g \in VolumesGet(t, t.resource_id) }

\* Volume._delete(backup=bk) up to its first suspension
Volume_delete(t, bk) ==
  IF t.resource_id = None THEN {[t EXCEPT !.pc = "returned"]}
  ELSE UNION { IF g.exc # NoExc THEN {Delete_except(g)}
               ELSE IF bk THEN wrappertask(Backup_start(g))
               ELSE Delete_issue(g)
               : g \in VolumesGet(t, t.resource_id) }

\* mutant: the polling loop issues the delete request again
Volume_delete_resume_redeletes(t) ==
  IF t.pc = "backup_yield" THEN wrappertask(Backup_resume(t))
  ELSE UNION { IF g.exc # NoExc THEN {Delete_except(g)}
               ELSE {Suspend(Req(g, "delete"), "delete_yield", "yieldB")}
               : g \in VolGet(t) }

\* Volume._delete resumed from a suspension, up to the next one
Volume_delete_resume(t) ==
  IF t.pc = "backup_yield" THEN wrappertask(Backup_resume(t))
  ELSE UNION { IF g.exc # NoExc THEN {Delete_except(g)}
               ELSE {Suspend(g, "delete_yield", "yieldB")}
               : g \in VolGet(t) }

\* scheduler.TaskRunner.start: the first unit of work has run (outs); the
\* runner is done when the generator has returned
TaskRunner_start(outs) ==
  { [o EXCEPT !.done = (o.pc = "returned")] : o \in outs }

\* scheduler.TaskRunner.step: a done runner stays done; otherwise the
\* generator has advanced one unit (outs); returns the done flag
TaskRunner_step(t, outs) ==
  IF t.done THEN {Returns(t, "True")}
  ELSE { LET d == (o.pc = "returned") IN
         Returns([o EXCEPT !.done = d, !.cnt.steps = @ + 1],
                 IF d THEN "True" ELSE "False")
         : o \in outs }

\* snapshot_backup that spares only a failed create
snapshot_backup_create_only(state) ==
  state \notin {<<"CREATE", "FAILED">>}

\* Volume.handle_snapshot_delete: back up first unless create/update failed
snapshot_backup(state) ==
  state \notin {<<"CREATE", "FAILED">>, <<"UPDATE", "FAILED">>}

Volume_handle_snapshot_delete(t, state) ==
  { Returns(o, "runner")
    : o \in TaskRunner_start(Volume_delete([t EXCEPT !.began.state = state],
                                           snapshot_backup(state))) }

\* Volume.handle_delete
Volume_handle_delete(t) ==
  { Returns(o, "runner") : o \in TaskRunner_start(Volume_delete(t, FALSE)) }

\* Volume.check_delete_complete
Volume_check_delete_complete(t) ==
  TaskRunner_step(t, Volume_delete_resume(t))

\* --------------------------------------------------- VolumeAttachment
\* properties[_volume_property]
volume_id == "v1"

\* VolumeAttachTask.__call__ up to its first suspension: the attach request,
\* the attachment id, `yield`
Attach_start(t) ==
  LET r == Req(t, "attach") IN
  {Raise(r, Fail)} \cup
  { Suspend([r EXCEPT !.attachment_id = a], "attach_yield0", "yieldA")
    : a \in AttachIds }

\* mutant: the loop waits on "attaching" only
Attach_status_attaching_only(t) ==
  IF t.vol.status = "attaching"
  THEN Suspend(t, "attach_yield", "yieldB")
  ELSE IF t.vol.status # "in-use" THEN Raise(t, Error(t.vol.status))
  ELSE [t EXCEPT !.pc = "returned"]

\* VolumeAttachTask.__call__ from a known volume status: the while loop's
\* test, the suspension inside it, and the final status check
Attach_status(t) ==
  IF t.vol.status \in {"available", "attaching"}
  THEN Suspend(t, "attach_yield", "yieldB")
  ELSE IF t.vol.status # "in-use" THEN Raise(t, Error(t.vol.status))
  ELSE [t EXCEPT !.pc = "returned"]

\* VolumeAttachTask.__call__ resumed from a suspension, up to the next one
Attach_resume(t) ==
  { IF g.exc # NoExc THEN g ELSE Attach_status(g)
    : g \in IF t.pc = "attach_yield0" THEN VolumesGet(t, volume_id)
            ELSE VolGet(t) }

\* mutant: resource_id_set before the runner is started
VolumeAttachment_handle_create_early(t) ==
  { Returns(o, "runner")
    : o \in TaskRunner_start(Attach_start(resource_id_set(t, t.attachment_id))) }

\* VolumeAttachment.handle_create
VolumeAttachment_handle_create(t) ==
  { IF o.exc # NoExc THEN Returns(o, "runner")
    ELSE Returns(resource_id_set(o, o.attachment_id), "runner")
    : o \in TaskRunner_start(Attach_start(t)) }

\* VolumeAttachment.check_create_complete
VolumeAttachment_check_create_complete(t) ==
  TaskRunner_step(t, Attach_resume(t))

\* mutant: only nova's NotFound is swallowed, BadRequest leaves the task
Detach_request_escalates(t, k) ==
  LET r == Req(t, k) IN
  { [r EXCEPT !.dreq = "ok"],
    Raise([r EXCEPT !.dreq = "BadRequest"], BadRequest),
    [r EXCEPT !.dreq = "NotFound", !.cnt.swallowed = @ + 1],
    Raise([r EXCEPT !.dreq = "Fail"], Fail) }

\* server_api.delete_server_volume inside its try/except: BadRequest and
\* NotFound of nova are swallowed, any other failure leaves the task;
\* k tells the first request ("detach") from a re-issued one ("redetach")
Detach_request(t, k) ==
  LET r == Req(t, k) IN
  { [r EXCEPT !.dreq = "ok"],
    [r EXCEPT !.dreq = "BadRequest", !.cnt.swallowed = @ + 1],
    [r EXCEPT !.dreq = "NotFound", !.cnt.swallowed = @ + 1],
    Raise([r EXCEPT !.dreq = "Fail"], Fail) }

\* mutant: no outer except clause
Detach_uncaught(t) == t

\* VolumeDetachTask.__call__, the outer except clause: cinder's NotFound
\* while polling ends the task successfully
Detach_except(t) ==
  IF t.exc = NotFound THEN [t EXCEPT !.exc = NoExc, !.pc = "returned"]
  ELSE t

\* VolumeDetachTask.__call__ from a known volume status: the while loop's
\* test, the suspension inside it, and the final status check
Detach_status(t) ==
  IF t.vol.status \in {"in-use", "detaching"}
  THEN Suspend(t, "detach_yield", "busy")
  ELSE IF t.vol.status # "available" THEN Raise(t, Error(t.vol.status))
  ELSE [t EXCEPT !.pc = "returned"]

\* vol.get() and what follows it inside the polling try
Detach_poll(t) ==
  { IF g.exc # NoExc THEN Detach_except(g) ELSE Detach_status(g)
    : g \in VolGet(t) }

\* mutant: NotFound of the first fetch is not caught
Detach_start_uncaught(t) ==
  UNION { IF g.exc # NoExc THEN {g}
          ELSE { IF d.exc # NoExc THEN d
                 ELSE Suspend(d, "detach_yield0", "yieldA")
                 : d \in Detach_request(g, "detach") }
          : g \in VolumesGet(t, volume_id) }

\* VolumeDetachTask.__call__ up to its first suspension
Detach_start(t) ==
  UNION { IF g.exc = NotFound
          THEN {[g EXCEPT !.exc = NoExc, !.pc = "returned"]}
          ELSE IF g.exc # NoExc THEN {g}
          ELSE { IF d.exc # NoExc THEN d
                 ELSE Suspend(d, "detach_yield0", "yieldA")
                 : d \in Detach_request(g, "detach") }
          : g \in VolumesGet(t, volume_id) }

\* mutant: the polling loop never issues the detach request again
Detach_resume_no_retry(t) == Detach_poll(t)

\* VolumeDetachTask.__call__ resumed from a suspension, up to the next one
Detach_resume(t) ==
  IF t.pc = "detach_yield0" THEN Detach_poll(t)
  ELSE UNION { IF d.exc # NoExc THEN {d} ELSE Detach_poll(d)
               : d \in Detach_request(t, "redetach") }

\* VolumeAttachment.handle_delete, the runner's start()
VolumeAttachment_handle_delete(t) ==
  { Returns(o, "none") : o \in TaskRunner_start(Detach_start(t)) }

\* VolumeAttachment.handle_delete, one iteration of the runner's
\* run_to_completion loop: step(), then sleep unless it returned True
run_to_completion(t) ==
  TaskRunner_step(t, Detach_resume(t))

\* -------------------------------------------------------- NestedStack
\* values of the TemplateURL, Parameters and TimeoutInMinutes properties
Urls == {"u1", "u2"}
ParamMaps == {"p1", "p2"}
Timeouts == {5, 10}
\* the Properties of a resource definition
Definitions == [url : Urls, params : ParamMaps, timeout : Timeouts]

\* documents the template server may answer with
Docs == {"docA", "docB", "garbage"}
\* exceptions of urlfetch.get that the handlers catch
FetchFailures == {"RequestException", "IOError"}

\* attribute keys, as the strings' pieces around each "."
Keys == {<<>>, <<"Outputs">>, <<"Outputs", ".", "X">>,
         <<"Outputs", ".", "X", ".", "Y">>, <<"Foo">>, <<"Foo", ".", "X">>,
         <<"X">>}

ValueError == [type |-> "ValueError", msg |-> "Could not fetch remote template"]
ParseError == [type |-> "ValueError", msg |-> "invalid template"]
InvalidTemplateAttribute == [type |-> "InvalidTemplateAttribute", msg |-> ""]

NoErr == [url |-> None, cause |-> "none"]
NoChild == [op |-> "none", template |-> None, params |-> None, timeout |-> 0]

\* a nested stack with properties p, before any callback
NsInit(p) ==
  [props |-> p, snippet |-> p, old |-> p, fetch |-> "none", fetched |-> None,
   doc |-> None, nparse |-> 0, nchild |-> 0, child |-> NoChild,
   err |-> NoErr, key |-> <<>>, nread |-> 0, outread |-> <<>>,
   nupd |-> 0, npoll |-> 0]

\* what a NestedStack callback starts from: nothing fetched, parsed, begun
\* or read in this call
NsCall(n) ==
  [ns |-> [n EXCEPT !.fetch = "none", !.fetched = None, !.doc = None,
                    !.nparse = 0, !.nchild = 0, !.err = NoErr, !.key = <<>>,
                    !.nread = 0, !.outread = <<>>, !.old = n.props],
   ret |-> "none", exc |-> NoExc]

\* template_format.parse: the template a document holds, None for a
\* document that is no template
parse(d) ==
  CASE d = "docA" -> "tmplA"
    [] d = "docB" -> "tmplB"
    [] OTHER -> None

\* NestedStack_template without the except clause's raise: a failed fetch
\* leaves no template and the handler goes on
NestedStack_template_unchecked(w) ==
  LET u == w.ns.props.url
      f == [w EXCEPT !.ns.fetched = u] IN
  { [f EXCEPT !.ns.fetch = c] : c \in FetchFailures }
  \cup
  { LET p == [f EXCEPT !.ns.fetch = "ok", !.ns.doc = d, !.ns.nparse = @ + 1] IN
    IF parse(d) = None THEN [p EXCEPT !.exc = ParseError] ELSE p
    : d \in Docs }

\* urlfetch.get(self.properties[PROP_TEMPLATE_URL]) in its try/except, then
\* template_format.parse: the template is left in doc, or the call raises
NestedStack_template(w) ==
  LET u == w.ns.props.url
      f == [w EXCEPT !.ns.fetched = u] IN
  { [f EXCEPT !.ns.fetch = c, !.exc = ValueError,
              !.ns.err = [url |-> u, cause |-> c]] : c \in FetchFailures }
  \cup
  { LET p == [f EXCEPT !.ns.fetch = "ok", !.ns.doc = d, !.ns.nparse = @ + 1] IN
    IF parse(d) = None THEN [p EXCEPT !.exc = ParseError] ELSE p
    : d \in Docs }

\* StackResource.create_with_template / update_with_template: the child
\* stack operation begins; the call returns its handle
child_with_template(w, o, template, params, timeout) ==
  [w EXCEPT !.ns.nchild = @ + 1,
            !.ns.child = [op |-> o, template |-> template,
                          params |-> params, timeout |-> timeout],
            !.ret = "handle"]

\* NestedStack.handle_create
NestedStack_handle_create(w) ==
  { IF t.exc # NoExc THEN [t EXCEPT !.ret = "raise"]
    ELSE child_with_template(t, "create", parse(t.ns.doc),
                             t.ns.props.params, t.ns.props.timeout)
    : t \in NestedStack_template(w) }

\* NestedStack_handle_update that keeps the properties held before the call
NestedStack_handle_update_stale(w, snippet) ==
  LET n == [w EXCEPT !.ns.snippet = snippet] IN
  { IF t.exc # NoExc THEN [t EXCEPT !.ret = "raise"]
    ELSE child_with_template(t, "update", parse(t.ns.doc),
                             t.ns.props.params, t.ns.props.timeout)
    : t \in NestedStack_template(n) }

\* NestedStack.handle_update(json_snippet, tmpl_diff, prop_diff): the
\* properties become those of json_snippet, whatever prop_diff holds
NestedStack_handle_update(w, snippet) ==
  LET n == [w EXCEPT !.ns.props = snippet, !.ns.snippet = snippet] IN
  { IF t.exc # NoExc THEN [t EXCEPT !.ret = "raise"]
    ELSE child_with_template(t, "update", parse(t.ns.doc),
                             t.ns.props.params, t.ns.props.timeout)
    : t \in NestedStack_template(n) }

\* key.startswith('Outputs.')
startswith_Outputs(key) ==
  Len(key) >= 2 /\ key[1] = "Outputs" /\ key[2] = "."

\* key.partition('.')[-1]: what follows the first ".", empty without one
RECURSIVE partition_last(_)
partition_last(key) ==
  IF key = <<>> THEN <<>>
  ELSE IF Head(key) = "." THEN Tail(key)
  ELSE partition_last(Tail(key))

\* StackResource.get_output(op): the child stack's output op is read; it is
\* returned, or the child has none of that name
get_output(w, name) ==
  LET r == [w EXCEPT !.ns.nread = @ + 1, !.ns.outread = name] IN
  { [r EXCEPT !.ret = "output"],
    [r EXCEPT !.ret = "raise", !.exc = InvalidTemplateAttribute] }

\* NestedStack.FnGetAtt(key)
NestedStack_FnGetAtt(w, key) ==
  LET k == [w EXCEPT !.ns.key = key] IN
  IF key # <<>> /\ ~startswith_Outputs(key)
  THEN {[k EXCEPT !.ret = "raise", !.exc = InvalidTemplateAttribute]}
  ELSE get_output(k, partition_last(key))

\* what every callback starts from: no result, no exception
Fresh(t) == [t EXCEPT !.ret = "none", !.exc = NoExc, !.dreq = "none"]
\* the start of a new operation (handle_*): counters restart
NewOp(t, h) ==
  [Fresh(t) EXCEPT !.cnt = ZeroCnt, !.obs = NoObs, !.pc = "none",
                   !.from = "none", !.done = FALSE, !.saw404 = FALSE,
                   !.vol = NoVol, !.backup = None,
                   !.began = [op |-> h, rid |-> t.resource_id,
                              state |-> NoState]]
\* one more poll of the current operation
Poll(t) == [Fresh(t) EXCEPT !.cnt.polls = @ + 1, !.from = t.pc]

\* the status, or the exception, a fetch answered
ObsName(a) == IF a.exc = NoExc THEN a.status ELSE a.exc.type
\* the polls so far, with this poll's fetch (if it made one) and result
Logged(t) ==
  IF t.cnt.get > cnt.get
  THEN Append(hist, [status |-> ObsName(t.obs), ret |-> t.ret])
  ELSE hist

Init ==
  /\ cls \in Classes
  /\ volume_backups \in IF cls \in StackClasses THEN {TRUE} ELSE BOOLEAN
  /\ backup_id \in IF cls \in VolumeClasses THEN {None} \cup BackupIds
                   ELSE {None}
  /\ resource_id = None
  /\ phase = "INIT"
  /\ vol = NoVol
  /\ backup = None
  /\ pc = "none"
  /\ done = FALSE
  /\ attachment_id = None
  /\ op = "none"
  /\ ret = "none"
  /\ exc = NoExc
  /\ obs = NoObs
  /\ provVol = None
  /\ saw404 = FALSE
  /\ ndel = 0
  /\ began = [op |-> "none", rid |-> None, state |-> NoState]
  /\ from = "none"
  /\ hist = <<>>
  /\ dreq = "none"
  /\ ns \in IF cls \in StackClasses THEN {NsInit(p) : p \in Definitions}
            ELSE {NsInit([url |-> "u1", params |-> "p1", timeout |-> 5])}
  /\ cnt = ZeroCnt

\* a Volume or VolumeAttachment callback leaves the resource's class and
\* properties, and the nested stack, alone
Config == UNCHANGED <<cls, backup_id, volume_backups, ns>>

\* the engine calls Volume.handle_create
VolumeHandleCreate ==
  /\ cls \in VolumeClasses
  /\ phase = "INIT"
  /\ \E t \in Volume_handle_create(NewOp(Cur, "handle_create"), backup_id, volume_backups) :
       /\ Apply(t)
       /\ phase' = IF t.exc # NoExc THEN "CREATE_FAILED"
                   ELSE "CREATE_IN_PROGRESS"
  /\ op' = "handle_create"
  /\ UNCHANGED ndel
  /\ hist' = <<>>
  /\ Config

\* the engine polls Volume.check_create_complete(vol)
VolumeCheckCreateComplete ==
  /\ cls \in VolumeClasses
  /\ phase = "CREATE_IN_PROGRESS"
  /\ cnt.polls < MaxPolls
  /\ \E t \in Volume_check_create_complete(Poll(Cur), cls) :
       /\ Apply(t)
       /\ hist' = Logged(t)
       /\ phase' = IF t.exc # NoExc THEN "CREATE_FAILED"
                   ELSE IF t.ret = "True" THEN "CREATE_COMPLETE"
                   ELSE "CREATE_IN_PROGRESS"
  /\ op' = "check_create_complete"
  /\ UNCHANGED ndel
  /\ Config

\* the states the engine can hand to handle_snapshot_delete in a phase
ResourceStates(ph) ==
  CASE ph = "CREATE_COMPLETE" ->
         {<<"CREATE", "COMPLETE">>, <<"UPDATE", "COMPLETE">>,
          <<"UPDATE", "FAILED">>}
    [] ph = "CREATE_FAILED" -> {<<"CREATE", "FAILED">>}
    [] ph = "DELETE_COMPLETE" -> {<<"DELETE", "COMPLETE">>}
    [] OTHER -> {<<"DELETE", "FAILED">>}

Deletable == {"CREATE_COMPLETE", "CREATE_FAILED", "DELETE_COMPLETE",
              "DELETE_FAILED"}

\* the engine calls Volume.handle_delete (deletion policy Delete)
VolumeHandleDelete ==
  /\ cls \in VolumeClasses
  /\ phase \in Deletable
  /\ ndel < MaxDeletes
  /\ \E t \in Volume_handle_delete(NewOp(Cur, "handle_delete")) :
       /\ Apply(t)
       /\ phase' = IF t.exc # NoExc THEN "DELETE_FAILED"
                   ELSE "DELETE_IN_PROGRESS"
  /\ op' = "handle_delete"
  /\ ndel' = ndel + 1
  /\ hist' = <<>>
  /\ Config

\* the engine calls Volume.handle_snapshot_delete (deletion policy Snapshot)
VolumeHandleSnapshotDelete ==
  /\ cls \in VolumeClasses
  /\ volume_backups
  /\ phase \in Deletable
  /\ ndel < MaxDeletes
  /\ \E state \in ResourceStates(phase) :
     \E t \in Volume_handle_snapshot_delete(NewOp(Cur, "handle_snapshot_delete"), state) :
       /\ Apply(t)
       /\ phase' = IF t.exc # NoExc THEN "DELETE_FAILED"
                   ELSE "DELETE_IN_PROGRESS"
  /\ op' = "handle_snapshot_delete"
  /\ ndel' = ndel + 1
  /\ hist' = <<>>
  /\ Config

\* the engine polls Volume.check_delete_complete(delete_task)
VolumeCheckDeleteComplete ==
  /\ cls \in VolumeClasses
  /\ phase = "DELETE_IN_PROGRESS"
  /\ cnt.polls < MaxPolls
  /\ \E t \in Volume_check_delete_complete(Poll(Cur)) :
       /\ Apply(t)
       /\ phase' = IF t.exc # NoExc THEN "DELETE_FAILED"
                   ELSE IF t.ret = "True" THEN "DELETE_COMPLETE"
                   ELSE "DELETE_IN_PROGRESS"
  /\ op' = "check_delete_complete"
  /\ UNCHANGED ndel
  /\ UNCHANGED hist
  /\ Config

\* the engine calls VolumeAttachment.handle_create
VolumeAttachmentHandleCreate ==
  /\ cls \in AttachmentClasses
  /\ phase = "INIT"
  /\ \E t \in VolumeAttachment_handle_create(NewOp(Cur, "handle_create")) :
       /\ Apply(t)
       /\ phase' = IF t.exc # NoExc THEN "CREATE_FAILED"
                   ELSE "CREATE_IN_PROGRESS"
  /\ op' = "handle_create"
  /\ UNCHANGED ndel
  /\ hist' = <<>>
  /\ Config

\* the engine polls VolumeAttachment.check_create_complete(attach_runner)
VolumeAttachmentCheckCreateComplete ==
  /\ cls \in AttachmentClasses
  /\ phase = "CREATE_IN_PROGRESS"
  /\ cnt.polls < MaxPolls
  /\ \E t \in VolumeAttachment_check_create_complete(Poll(Cur)) :
       /\ Apply(t)
       /\ hist' = Logged(t)
       /\ phase' = IF t.exc # NoExc THEN "CREATE_FAILED"
                   ELSE IF t.ret = "True" THEN "CREATE_COMPLETE"
                   ELSE "CREATE_IN_PROGRESS"
  /\ op' = "check_create_complete"
  /\ UNCHANGED ndel
  /\ Config

\* the engine calls VolumeAttachment.handle_delete: the detach task starts
VolumeAttachmentHandleDelete ==
  /\ cls \in AttachmentClasses
  /\ phase \in Deletable
  /\ ndel < MaxDeletes
  /\ \E t \in VolumeAttachment_handle_delete(NewOp(Cur, "handle_delete")) :
       /\ Apply(t)
       /\ phase' = IF t.exc # NoExc THEN "DELETE_FAILED"
                   ELSE "IN_HANDLE_DELETE"
  /\ op' = "handle_delete"
  /\ ndel' = ndel + 1
  /\ hist' = <<>>
  /\ Config

\* still inside VolumeAttachment.handle_delete: the runner steps the detach
\* task again; handle_delete returns when step() says done, or raises
VolumeAttachmentHandleDeleteLoop ==
  /\ cls \in AttachmentClasses
  /\ phase = "IN_HANDLE_DELETE"
  /\ cnt.polls < MaxPolls
  /\ \E t \in run_to_completion(Poll(Cur)) :
       /\ Apply(t)
       /\ hist' = Logged(t)
       /\ phase' = IF t.exc # NoExc THEN "DELETE_FAILED"
                   ELSE IF t.ret = "True" THEN "DELETE_COMPLETE"
                   ELSE "IN_HANDLE_DELETE"
  /\ op' = "handle_delete"
  /\ UNCHANGED ndel
  /\ Config

\* what a NestedStack callback leaves alone
NotNested ==
  UNCHANGED <<cls, backup_id, volume_backups, resource_id, vol, backup, pc,
              done, attachment_id, obs, provVol, saw404, ndel, began, from,
              hist, dreq, cnt>>

\* the engine calls NestedStack.handle_create
NestedStackHandleCreate ==
  /\ cls \in StackClasses
  /\ phase = "INIT"
  /\ \E w \in NestedStack_handle_create(NsCall(ns)) :
       /\ ns' = w.ns /\ ret' = w.ret /\ exc' = w.exc
       /\ phase' = IF w.exc # NoExc THEN "CREATE_FAILED"
                   ELSE "CREATE_IN_PROGRESS"
  /\ op' = "handle_create"
  /\ NotNested

\* the engine calls NestedStack.handle_update with a new definition
NestedStackHandleUpdate ==
  /\ cls \in StackClasses
  /\ phase \in {"CREATE_COMPLETE", "UPDATE_COMPLETE", "UPDATE_FAILED"}
  /\ ns.nupd < MaxUpdates
  /\ \E snippet \in Definitions :
     \E w \in NestedStack_handle_update(NsCall(ns), snippet) :
       /\ ns' = [w.ns EXCEPT !.nupd = @ + 1, !.npoll = 0]
       /\ ret' = w.ret /\ exc' = w.exc
       /\ phase' = IF w.exc # NoExc THEN "UPDATE_FAILED"
                   ELSE "UPDATE_IN_PROGRESS"
  /\ op' = "handle_update"
  /\ NotNested

\* the engine polls the child stack operation, which ends sooner or later
NestedStackCheckComplete ==
  /\ cls \in StackClasses
  /\ phase \in {"CREATE_IN_PROGRESS", "UPDATE_IN_PROGRESS"}
  /\ ns.npoll < MaxPolls
  /\ \E r \in {"True", "False"} :
       /\ ret' = r
       /\ phase' = IF r = "False" THEN phase
                   ELSE IF phase = "CREATE_IN_PROGRESS" THEN "CREATE_COMPLETE"
                   ELSE "UPDATE_COMPLETE"
  /\ ns' = [ns EXCEPT !.npoll = @ + 1]
  /\ exc' = NoExc
  /\ op' = "check_complete"
  /\ NotNested

\* a template of the parent stack resolves an attribute of the nested stack
NestedStackFnGetAtt ==
  /\ cls \in StackClasses
  /\ phase \in {"CREATE_COMPLETE", "UPDATE_COMPLETE"}
  /\ \E key \in Keys :
     \E w \in NestedStack_FnGetAtt(NsCall(ns), key) :
       /\ ns' = w.ns /\ ret' = w.ret /\ exc' = w.exc
  /\ op' = "FnGetAtt"
  /\ UNCHANGED phase
  /\ NotNested

Next ==
  \/ VolumeHandleCreate
  \/ VolumeCheckCreateComplete
  \/ VolumeHandleDelete
  \/ VolumeHandleSnapshotDelete
  \/ VolumeCheckDeleteComplete
  \/ VolumeAttachmentHandleCreate
  \/ VolumeAttachmentCheckCreateComplete
  \/ VolumeAttachmentHandleDelete
  \/ VolumeAttachmentHandleDeleteLoop
  \/ NestedStackHandleCreate
  \/ NestedStackHandleUpdate
  \/ NestedStackCheckComplete
  \/ NestedStackFnGetAtt

Spec == Init /\ [][Next]_vars

\* ===================================================================
\* Properties
\* ===================================================================

\* the still-creating set, by create mode (no restore source / restore source)
ModeCreatingStatus ==
  IF backup_id = None THEN {"creating"}
  ELSE {"creating", "restoring-backup", "downloading"}

\* the still-creating set, by resource class
ClassCreatingStatus ==
  IF cls = "CinderVolume" THEN {"creating", "restoring-backup", "downloading"}
  ELSE {"creating", "restoring-backup"}

\* every poll so far classified its status with the still-creating set S
PollsClassified(S) ==
  \A i \in DOMAIN hist :
    /\ hist[i].status \in S => hist[i].ret = "False"
    /\ hist[i].status = "available" => hist[i].ret = "True" /\ i = Len(hist)
    /\ hist[i].ret = "False" => hist[i].status \in S

\* C1 as stated: Volume.check_create_complete returns false exactly on the
\* statuses of the create mode's still-creating set ({"creating"} without a
\* restore source, {"creating","restoring-backup","downloading"} with one)
\* and true on the first poll that sees "available"
C1_ModeCreatingSet ==
  cls \in VolumeClasses /\ began.op = "handle_create"
    => PollsClassified(ModeCreatingStatus)

\* C1 amended: the still-creating set is that of the resource's class,
\* whatever the create mode: {"creating","restoring-backup"} for Volume,
\* {"creating","restoring-backup","downloading"} for CinderVolume; the poll
\* returns false exactly on those statuses and true on the first poll that
\* sees "available"
C1_ClassCreatingSet ==
  cls \in VolumeClasses /\ began.op = "handle_create"
    => PollsClassified(ClassCreatingStatus)

\* a plain Volume created without restore source waits on "restoring-backup"
C1_Witness ==
  /\ cls = "Volume" /\ backup_id = None
  /\ Len(hist) = 2
  /\ hist[1] = [status |-> "restoring-backup", ret |-> "False"]
  /\ hist[2] = [status |-> "available", ret |-> "True"]

\* C2: a poll of Volume.check_create_complete that sees a status that is
\* neither "available" nor still-creating raises Error(status); every poll
\* makes exactly one fetch of the volume, no create, update or delete
\* request, and leaves resource_id as handle_create set it
C2_UnexpectedStatusRaises ==
  cls \in VolumeClasses /\ op = "check_create_complete" =>
    /\ (obs.exc = NoExc /\ obs.status \notin ClassCreatingStatus \cup {"available"}
          => ret = "raise" /\ exc = Error(obs.status))
    /\ cnt.get = cnt.polls + (IF backup_id = None THEN 0 ELSE 1)
    /\ cnt.update = (IF backup_id = None THEN 0 ELSE 1)
    /\ cnt.create + cnt.restore = 1
    /\ cnt.delete = 0
    /\ resource_id = provVol /\ resource_id = vol.id /\ resource_id # None

\* the second poll of a restored volume sees "error"
C2_Witness ==
  /\ cls \in VolumeClasses /\ op = "check_create_complete"
  /\ backup_id # None /\ cnt.polls = 2
  /\ obs = [exc |-> NoExc, status |-> "error"]
  /\ exc = Error("error")

\* C3 as stated: once the create or restore request has made a volume on the
\* provider, resource_id is that volume's id when Volume.handle_create ends,
\* by return or by exception, and so before the first poll
C3_RecordedImmediately ==
  cls \in VolumeClasses /\ began.op = "handle_create" /\ provVol # None
    => resource_id = provVol

DeleteOps == {"handle_delete", "handle_snapshot_delete"}

\* the delete task found nothing to delete: no resource_id, or NotFound
\* answered to its first fetch
NothingToDelete ==
  began.rid = None \/ (cnt.get = 1 /\ obs.exc = NotFound)

\* C4: when resource_id is unset, or the first fetch of the volume answers
\* not-found, Volume.handle_delete returns a finished task, the first
\* check_delete_complete returns true, and neither a delete nor a backup
\* request was issued
C4_DeleteIdempotent ==
  cls \in VolumeClasses /\ began.op = "handle_delete" /\ NothingToDelete =>
    /\ exc = NoExc /\ done
    /\ phase \in {"DELETE_IN_PROGRESS", "DELETE_COMPLETE"}
    /\ cnt.delete = 0 /\ cnt.bcreate = 0
    /\ (op = "check_delete_complete"
          => ret = "True" /\ cnt.polls = 1 /\ phase = "DELETE_COMPLETE")

\* the first poll after a handle_delete whose first fetch answered not-found
C4_Witness ==
  /\ cls \in VolumeClasses /\ began.op = "handle_delete"
  /\ began.rid # None /\ cnt.get = 1 /\ obs.exc = NotFound
  /\ op = "check_delete_complete" /\ ret = "True"

\* the last fetch is the one the in-use test of _delete reads: the first
\* fetch without backup, the re-fetch after the finished backup with one
AtInUseTest ==
  \/ cnt.bcreate = 0 /\ cnt.get = 1
  \/ cnt.bcreate = 1 /\ backup = "available" /\ cnt.get = 2

\* C5: when the volume is "in-use" where Volume._delete would issue the
\* delete, the task fails with Error("Volume in use"), no delete request is
\* issued in that run and resource_id stays the volume's id
C5_InUseRefused ==
  /\ cls \in VolumeClasses /\ began.op \in DeleteOps
  /\ AtInUseTest /\ obs = [exc |-> NoExc, status |-> "in-use"]
  => /\ exc = Error("Volume in use")
     /\ phase = "DELETE_FAILED"
     /\ cnt.delete = 0
     /\ resource_id = began.rid /\ resource_id # None

\* an in-use volume refused in a poll, after its backup finished
C5_Witness ==
  /\ cls \in VolumeClasses /\ began.op = "handle_snapshot_delete"
  /\ op = "check_delete_complete" /\ cnt.bcreate = 1
  /\ exc = Error("Volume in use") /\ resource_id \in VolIds

\* C6: a check_delete_complete poll made after the delete request returns
\* false when its re-fetch finds the volume, whatever the status, and true
\* when it answers not-found; the delete request is issued at most once per
\* run; a run that issued it completes only by a not-found answer, and a
\* not-found answer completes it
C6_DeletePolling ==
  cls \in VolumeClasses /\ began.op \in DeleteOps =>
    /\ cnt.delete <= 1
    /\ (op = "check_delete_complete" /\ from = "delete_yield" =>
          /\ cnt.delete = 1
          /\ (obs.exc = NoExc => ret = "False" /\ phase = "DELETE_IN_PROGRESS")
          /\ (obs.exc = NotFound => ret = "True")
          /\ (ret = "True" => obs.exc = NotFound))
    /\ (phase = "DELETE_COMPLETE" /\ cnt.delete = 1 => saw404)
    /\ (saw404 => done /\ exc = NoExc)

\* the third poll answers not-found after the volume was seen in "error"
C6_Witness ==
  /\ cls \in VolumeClasses /\ began.op = "handle_delete"
  /\ op = "check_delete_complete" /\ from = "delete_yield"
  /\ cnt.polls = 3 /\ vol.status = "error" /\ obs.exc = NotFound
  /\ ret = "True" /\ cnt.delete = 1

\* C7: in a backup-then-delete run, with n suspensions of _backup (yieldA)
\* and m of the delete polling (yieldB), the finished composite took
\* exactly n+m step() calls after start(), and a suspended one is at the
\* suspension its n+m-th unit reached: none is added or lost
C7_CompositeTransparent ==
  /\ cls \in VolumeClasses /\ began.op = "handle_snapshot_delete"
  /\ cnt.bcreate = 1
  /\ phase \in {"DELETE_IN_PROGRESS", "DELETE_COMPLETE"}
  => IF done THEN cnt.steps = cnt.yieldA + cnt.yieldB
     ELSE /\ cnt.steps + 1 = cnt.yieldA + cnt.yieldB
          /\ pc \in {"backup_yield", "delete_yield"}

\* a composite with two backup suspensions and two delete suspensions done
C7_Witness ==
  /\ cls \in VolumeClasses /\ began.op = "handle_snapshot_delete"
  /\ phase = "DELETE_COMPLETE" /\ done
  /\ cnt.yieldA = 2 /\ cnt.yieldB = 2 /\ cnt.steps = 4

\* C8: once VolumeAttachment.handle_create has returned, the attach request
\* was issued exactly once and resource_id is the attachment id it
\* returned; no poll issues another
C8_AttachOnce ==
  /\ cls \in AttachmentClasses /\ began.op = "handle_create"
  /\ (ret # "raise" \/ cnt.polls > 0)
  => /\ cnt.attach = 1
     /\ attachment_id \in AttachIds
     /\ resource_id = attachment_id

\* resource_id is set when handle_create returns, and still after polls
C8_Witness ==
  /\ cls \in AttachmentClasses /\ began.op = "handle_create"
  /\ op = "check_create_complete" /\ cnt.polls = 3
  /\ resource_id = "a2" /\ cnt.attach = 1

\* C9: VolumeAttachment.check_create_complete returns false while the
\* status is "available" or "attaching", true on the first "in-use", and
\* raises Error(status) on any other status
C9_AttachClassified ==
  cls \in AttachmentClasses /\ began.op = "handle_create" =>
    /\ \A i \in DOMAIN hist :
         /\ hist[i].status \in {"available", "attaching"}
              => hist[i].ret = "False"
         /\ hist[i].status = "in-use"
              => hist[i].ret = "True" /\ i = Len(hist)
         /\ hist[i].status \notin {"available", "attaching", "in-use"}
              => hist[i].ret = "raise" /\ i = Len(hist)
    /\ (op = "check_create_complete" /\ obs.exc = NoExc /\ ret = "raise"
          => exc = Error(obs.status))

\* the statuses "attaching", "in-use" gave the results false, true
C9_Witness ==
  /\ cls \in AttachmentClasses /\ began.op = "handle_create"
  /\ hist = <<[status |-> "attaching", ret |-> "False"],
              [status |-> "in-use", ret |-> "True"]>>

Busy == {"in-use", "detaching"}
\* polls of the detach task so far that saw the volume in-use or detaching
BusySeen == Cardinality({i \in DOMAIN hist : hist[i].status \in Busy})

\* C10: the detach task issues the first detach request once, and one more
\* for each poll that saw "in-use" or "detaching" (the one for the last such
\* poll when the task is next stepped); it polls on only after such a
\* status, and the first poll that sees "available" completes it
C10_DetachRetry ==
  cls \in AttachmentClasses /\ began.op = "handle_delete" =>
    /\ cnt.detach <= 1
    /\ cnt.redetach = IF pc = "detach_yield" THEN BusySeen - 1 ELSE BusySeen
    /\ \A i \in DOMAIN hist :
         /\ i < Len(hist) => hist[i].status \in Busy
         /\ hist[i].status \in Busy => hist[i].ret = "False"
         /\ hist[i].status = "available" => hist[i].ret = "True"
    /\ (hist # <<>> /\ hist[Len(hist)].status = "available"
          => phase = "DELETE_COMPLETE" /\ exc = NoExc /\ done)

\* polls in-use, detaching, in-use, available: three re-issued requests,
\* some of them answered not-found or bad-request
C10_Witness ==
  /\ cls \in AttachmentClasses /\ began.op = "handle_delete"
  /\ phase = "DELETE_COMPLETE"
  /\ Len(hist) = 4
  /\ hist[1].status = "in-use" /\ hist[2].status = "detaching"
  /\ hist[3].status = "in-use" /\ hist[4].status = "available"
  /\ cnt.redetach = 3 /\ cnt.swallowed >= 2

\* C11: when the first fetch of the volume answers not-found, the detach
\* task ends successfully with no suspension and no detach request
C11_DetachAbsent ==
  /\ cls \in AttachmentClasses /\ began.op = "handle_delete"
  /\ cnt.get = 1 /\ obs.exc = NotFound
  => /\ exc = NoExc /\ done /\ pc = "returned"
     /\ phase \in {"IN_HANDLE_DELETE", "DELETE_COMPLETE"}
     /\ cnt.yieldA = 0 /\ cnt.busy = 0 /\ cnt.steps = 0
     /\ cnt.detach = 0 /\ cnt.redetach = 0

\* handle_delete has returned for a volume that was not found at the start
C11_Witness ==
  /\ cls \in AttachmentClasses /\ began.op = "handle_delete"
  /\ cnt.get = 1 /\ obs.exc = NotFound
  /\ phase = "DELETE_COMPLETE" /\ ret = "True"

\* the last poll of the detach task
LastPoll == hist[Len(hist)]

\* C12: once the detach task polls, it ends successfully exactly when a
\* poll sees "available" or its re-fetch answers not-found; a poll that
\* sees a status outside {"in-use","detaching","available"} raises
\* Error(status); a poll that sees "in-use" or "detaching" neither ends nor
\* fails the task
C12_DetachOutcome ==
  cls \in AttachmentClasses /\ began.op = "handle_delete" =>
    /\ \A i \in DOMAIN hist :
         /\ hist[i].status \in Busy => hist[i].ret = "False"
         /\ hist[i].status \in {"available", "NotFound"}
              => hist[i].ret = "True" /\ i = Len(hist)
         /\ hist[i].status \notin Busy \cup {"available", "NotFound"}
              => hist[i].ret = "raise" /\ i = Len(hist)
    /\ (hist # <<>> =>
          /\ (phase = "DELETE_COMPLETE"
                <=> LastPoll.status \in {"available", "NotFound"})
          /\ (phase = "IN_HANDLE_DELETE"
                => LastPoll.status \in Busy /\ ~done /\ exc = NoExc)
          /\ (obs.exc = NoExc /\ obs.status \notin Busy \cup {"available"}
                => exc = Error(obs.status) /\ phase = "DELETE_FAILED"))

\* the second poll's re-fetch answers not-found and the detach has succeeded
C12_Witness ==
  /\ cls \in AttachmentClasses /\ began.op = "handle_delete"
  /\ Len(hist) = 2 /\ hist[1].status = "detaching"
  /\ hist[2] = [status |-> "NotFound", ret |-> "True"]
  /\ phase = "DELETE_COMPLETE" /\ exc = NoExc

\* a poll that sees "error" fails the detach
C12_WitnessError ==
  /\ cls \in AttachmentClasses /\ began.op = "handle_delete"
  /\ hist # <<>> /\ LastPoll.status = "error"
  /\ exc = Error("error") /\ phase = "DELETE_FAILED"

\* C13: a detach request answered bad-request or not-found, the first or a
\* re-issued one, does not fail the detach task: after the first the task
\* is suspended, after a re-issued one the re-fetch is made and a volume
\* still "in-use" or "detaching" leaves the task polling (and so retrying);
\* any other failure of the request leaves the task as it is
C13_TransientDetachErrors ==
  cls \in AttachmentClasses /\ began.op = "handle_delete" =>
    /\ (dreq \in {"BadRequest", "NotFound"} =>
          /\ exc.type \notin {"BadRequest", "NotFound"}
          /\ (from = "none"
                => pc = "detach_yield0" /\ exc = NoExc
                   /\ phase = "IN_HANDLE_DELETE")
          /\ (from = "detach_yield" =>
                /\ Len(hist) = cnt.polls
                /\ (obs.exc = NoExc /\ obs.status \in Busy
                      => pc = "detach_yield" /\ exc = NoExc
                         /\ phase = "IN_HANDLE_DELETE")))
    /\ (dreq = "Fail" => exc = Fail /\ phase = "DELETE_FAILED")

\* a re-issued request answered bad-request, after an earlier swallowed
\* answer, with the task still polling
C13_Witness ==
  /\ cls \in AttachmentClasses /\ began.op = "handle_delete"
  /\ dreq = "BadRequest" /\ from = "detach_yield"
  /\ cnt.swallowed >= 2 /\ pc = "detach_yield"
  /\ phase = "IN_HANDLE_DELETE"

\* C14 as stated: VolumeAttachment.handle_delete returns after at most one
\* step of the detach task beyond its start, however long the volume stays
\* "in-use" or "detaching" (all steps of the detach task are made inside
\* handle_delete)
C14_OneStepPerCallback ==
  cls \in AttachmentClasses /\ began.op = "handle_delete" => cnt.steps <= 1

\* ---------------------------------------------------------------- C15
\* C15: when urlfetch.get fails with a RequestException or an IOError in
\* NestedStack.handle_create or handle_update, the call raises the
\* ValueError built from the URL of the properties and that cause, nothing
\* has been parsed and no child-stack operation has been begun in the call.
C15_FetchFailureRaises ==
  (cls \in StackClasses /\ op \in {"handle_create", "handle_update"}
     /\ ns.fetch \in FetchFailures)
  => /\ ret = "raise" /\ exc = ValueError
     /\ ns.err = [url |-> ns.snippet.url, cause |-> ns.fetch]
     /\ ns.fetched = ns.snippet.url
     /\ ns.nparse = 0 /\ ns.nchild = 0
     /\ op = "handle_create" => ns.child = NoChild
     /\ phase \in {"CREATE_FAILED", "UPDATE_FAILED"}

\* an update of a created nested stack whose fetch failed with IOError
C15_Witness ==
  /\ cls \in StackClasses /\ op = "handle_update"
  /\ ns.fetch = "IOError" /\ ns.child.op = "create"

\* ---------------------------------------------------------------- C16
\* C16: every NestedStack.handle_update fetches once, from the URL of the
\* definition it was passed; when it returns, one child-stack update has
\* been begun with the template parsed from the fetched document and the
\* parameters and timeout of that definition, also when that definition
\* equals the properties held before.
C16_UpdateRefetches ==
  (cls \in StackClasses /\ op = "handle_update")
  => /\ ns.fetch # "none"
     /\ ns.fetched = ns.snippet.url
     /\ ns.props = ns.snippet
     /\ exc = NoExc =>
          /\ ret = "handle"
          /\ ns.nchild = 1
          /\ ns.child = [op |-> "update", template |-> parse(ns.doc),
                         params |-> ns.snippet.params,
                         timeout |-> ns.snippet.timeout]

\* an update with an unchanged definition that begot a child update with
\* another template than the one the stack was created from
C16_Witness ==
  /\ cls \in StackClasses /\ op = "handle_update"
  /\ ns.nupd = 1 /\ ns.snippet = ns.old /\ exc = NoExc
  /\ ns.child.op = "update" /\ ns.child.template = "tmplB"

\* ---------------------------------------------------------------- C17
\* C17: NestedStack.FnGetAtt raises InvalidTemplateAttribute without
\* reading a child output for every key that does not start with
\* "Outputs.", the empty key included, and reads the output named by the
\* rest of the key otherwise.
C17_NonOutputKeysRejected ==
  (cls \in StackClasses /\ op = "FnGetAtt")
  => IF startswith_Outputs(ns.key)
     THEN ns.nread = 1 /\ ns.outread = Tail(Tail(ns.key))
     ELSE ret = "raise" /\ exc = InvalidTemplateAttribute /\ ns.nread = 0

\* ---------------------------------------------------------------- C18
\* C18: in a delete run that requested a backup, the volume delete request
\* is issued only once the backup has been seen "available"; when the
\* backup is seen in a status other than "creating" and "available", the
\* callback raises Error(that status), no volume delete request is issued
\* and resource_id stays the volume's id.
C18_BackupBeforeDelete ==
  (cls \in VolumeClasses /\ began.op = "handle_snapshot_delete"
     /\ cnt.bcreate = 1)
  => /\ cnt.delete >= 1 => backup = "available"
     /\ backup \notin {None, "creating", "available"} =>
          /\ ret = "raise" /\ exc = Error(backup)
          /\ phase = "DELETE_FAILED" /\ ~done
          /\ cnt.delete = 0
          /\ resource_id = began.rid /\ resource_id # None

\* a backup that was "creating" is seen in "error" by a poll
C18_Witness ==
  /\ cls \in VolumeClasses /\ began.op = "handle_snapshot_delete"
  /\ op = "check_delete_complete" /\ cnt.bget >= 1
  /\ backup = "error" /\ exc = Error("error") /\ resource_id \in VolIds

\* ---------------------------------------------------------------- C19
FailedStates == {<<"CREATE", "FAILED">>, <<"UPDATE", "FAILED">>}

\* C19: a delete run begun by Volume.handle_snapshot_delete issues no backup
\* request when the state is (CREATE, FAILED) or (UPDATE, FAILED); in every
\* other state it requests the backup once the volume was found and deletes
\* only after the backup is available; the first unit of the task has run
\* when the callback ends, and what it returns is the started runner.
C19_SnapshotUnlessFailed ==
  (cls \in VolumeClasses /\ began.op = "handle_snapshot_delete")
  => /\ began.state \in FailedStates => cnt.bcreate = 0 /\ cnt.bget = 0
     /\ began.state \notin FailedStates =>
          /\ cnt.get >= 2 \/ (cnt.get = 1 /\ obs.exc = NoExc)
               => cnt.bcreate = 1
          /\ cnt.delete >= 1 => cnt.bcreate = 1 /\ backup = "available"
     /\ pc # "none"
     /\ began.rid # None => cnt.get >= 1
     /\ op = "handle_snapshot_delete" =>
          /\ cnt.steps = 0
          /\ exc = NoExc =>
               /\ ret = "runner"
               /\ pc \in {"backup_yield", "delete_yield", "returned"}
               /\ done = (pc = "returned")

\* handle_snapshot_delete in state (UPDATE, FAILED) returned a runner that
\* has issued the delete request and waits at its first suspension
C19_Witness ==
  /\ cls \in VolumeClasses /\ op = "handle_snapshot_delete"
  /\ began.state = <<"UPDATE", "FAILED">>
  /\ ret = "runner" /\ pc = "delete_yield" /\ cnt.delete = 1

\* ---------------------------------------------------------------- C20
\* C20: in a Volume delete run resource_id is None exactly when it began as
\* None or a not-found answer was caught in the run, and is the id the run
\* began with otherwise (polls that find the volume, failures); no
\* not-found answer leaves the task as an exception; a completed delete
\* leaves resource_id None, and a run that begins with resource_id None
\* is finished at start without any fetch, backup or delete request.
C20_ClearedOnAbsence ==
  (cls \in VolumeClasses /\ began.op \in DeleteOps)
  => /\ exc # NotFound
     /\ obs.exc = NotFound => saw404
     /\ saw404 => resource_id = None /\ began.rid # None
     /\ ~saw404 => resource_id = began.rid
     /\ phase = "DELETE_COMPLETE" => resource_id = None
     /\ began.rid = None =>
          /\ done /\ exc = NoExc
          /\ cnt.get = 0 /\ cnt.bcreate = 0 /\ cnt.bget = 0
          /\ cnt.delete = 0 /\ cnt.yieldA = 0 /\ cnt.yieldB = 0

\* the second handle_delete of a volume that a plain create had recorded:
\* the first delete cleared resource_id, the second is done at start
C20_Witness ==
  /\ cls \in VolumeClasses /\ op = "handle_delete" /\ ndel = 2
  /\ backup_id = None /\ provVol # None /\ began.rid = None
  /\ done /\ ret = "runner" /\ cnt.get = 0

====
